---------------------------- MODULE Spec2Model ----------------------------
(***************************************************************************)
(* A model of JbobParser.py: the Scanner (text -> tokens), the Parser      *)
(* (tokens -> tree), and the JsonBlock tree with its indexed read/write    *)
(* and its rendering back to text.                                         *)
(*                                                                         *)
(* Characters are one-character strings.  Python values are tagged records *)
(* [t |-> type name, v |-> payload]; an exception raised by the code is    *)
(* the name of its class in the field exc ("" while nothing was raised).   *)
(***************************************************************************)
EXTENDS Integers, Sequences, FiniteSets, TLC

VARIABLES
    LINE_COMMENTS,   \* the module global LINE_COMMENTS
    MAX_CAPACITY,    \* the module global MAX_CAPACITY
    scanner,         \* the Scanner object, tokenize's list and what it raised
    parser,          \* the Parser object, parse's result and what it raised
    tree,            \* the JsonBlock held by the caller
    last,            \* the last indexed read/write on the tree and its outcome
    writes           \* number of indexed writes issued so far

vars == <<LINE_COMMENTS, MAX_CAPACITY, scanner, parser, tree, last, writes>>

----------------------------------------------------------------------------
(* Bounds of the model *)

\* longest source text of the scanner specification, in pieces of ScanPieces
MaxPieces == 3
\* longest token list of the parser specification that is not cut from a document
MaxTokens == 4
\* largest value of the global MAX_CAPACITY that is tried
MaxCapacity == 2
\* number of indexed writes issued on one tree
MaxWrites == 2
\* largest number of fields of the root object of a document
MaxFields == 2

----------------------------------------------------------------------------
(* Python values *)

None == "None"

PyInt(n) == [t |-> "int", v |-> n]
\* a float read from a decimal literal: integer part and the fractional
\* digits without trailing zeros (equal floats have equal records)
PyFloat(ip, fr) == [t |-> "float", v |-> <<ip, fr>>]
PyStr(s) == [t |-> "str", v |-> s]
PyBool(b) == [t |-> "bool", v |-> b]
PyList(l) == [t |-> "list", v |-> l]
\* a dict: its items in insertion order, each <<key, value>>
PyDict(items) == [t |-> "dict", v |-> items]
PyNone == [t |-> "NoneType", v |-> None]
PyTuple(l) == [t |-> "tuple", v |-> l]

\* isinstance(value, (int, float)): bool is a subclass of int
IsIntOrFloat(value) == value.t \in {"int", "float", "bool"}

clamp(value, value_min, value_max) ==
    LET mx == IF value > value_min THEN value ELSE value_min
    IN IF mx < value_max THEN mx ELSE value_max

----------------------------------------------------------------------------
(* Characters *)

QUOTE == "\""
BACKSLASH == "\\"
NEWLINE == "\n"

Digits == <<"0", "1", "2", "3", "4", "5", "6", "7", "8", "9">>
\* list('0123456789abcdefABCDEF')
HexDigits == <<"0", "1", "2", "3", "4", "5", "6", "7", "8", "9",
               "a", "b", "c", "d", "e", "f", "A", "B", "C", "D", "E", "F">>
Letters == {"a", "b", "c", "d", "e", "f", "g", "h", "i", "j", "k", "l", "m",
            "n", "o", "p", "q", "r", "s", "t", "u", "v", "w", "x", "y", "z",
            "A", "B", "C", "D", "E", "F"}

Range(f) == {f[i] : i \in DOMAIN f}

IsSpace(c) == c \in {" ", "\t", "\n", "\r", "\f"}
IsDigit(c) == c \in Range(Digits)
IsAlnum(c) == c \in Range(Digits) \cup Letters

\* the printable ASCII characters, code points 32..126
Ascii == <<" ", "!", "\"", "#", "$", "%", "&", "'", "(", ")", "*", "+", ",",
           "-", ".", "/", "0", "1", "2", "3", "4", "5", "6", "7", "8", "9",
           ":", ";", "<", "=", ">", "?", "@", "A", "B", "C", "D", "E", "F",
           "G", "H", "I", "J", "K", "L", "M", "N", "O", "P", "Q", "R", "S",
           "T", "U", "V", "W", "X", "Y", "Z", "[", "\\", "]", "^", "_", "U+96",
           "a", "b", "c", "d", "e", "f", "g", "h", "i", "j", "k", "l", "m",
           "n", "o", "p", "q", "r", "s", "t", "u", "v", "w", "x", "y", "z",
           "{", "|", "}", "~">>

\* chr(n): the character of code point n
Chr(n) ==
    IF n \in 32..126 THEN Ascii[n - 31]
    ELSE IF n = 10 THEN "\n"
    ELSE IF n = 9 THEN "\t"
    ELSE IF n = 13 THEN "\r"
    ELSE IF n = 12 THEN "\f"
    ELSE "U+" \o ToString(n)

IndexOf(seq, c) == CHOOSE i \in DOMAIN seq : seq[i] = c

DigitVal(c) == IndexOf(Digits, c) - 1
HexVal(c) == LET i == IndexOf(HexDigits, c) IN IF i <= 16 THEN i - 1 ELSE i - 7

RECURSIVE ParseInt(_, _)
\* the value of a run of digits in the given base, most significant first
ParseInt(ds, base) ==
    IF ds = <<>> THEN 0
    ELSE ParseInt(SubSeq(ds, 1, Len(ds) - 1), base) * base
         + (IF base = 16 THEN HexVal(ds[Len(ds)]) ELSE DigitVal(ds[Len(ds)]))

CountOf(seq, c) == Cardinality({i \in DOMAIN seq : seq[i] = c})

RECURSIVE StripZeros(_)
StripZeros(ds) ==
    IF ds # <<>> /\ ds[Len(ds)] = "0" THEN StripZeros(SubSeq(ds, 1, Len(ds) - 1))
    ELSE ds

\* int(number) of a run of decimal digits
IntOf(number) == [exc |-> "", val |-> PyInt(ParseInt(number, 10))]

\* float(number) of a run of digits and points: Python reads it when it has
\* exactly one point and at least one digit, and raises ValueError otherwise
FloatOf(number) ==
    IF CountOf(number, ".") # 1 \/ Len(number) < 2
    THEN [exc |-> "ValueError", val |-> PyNone]
    ELSE LET p == IndexOf(number, ".")
         IN [exc |-> "",
             val |-> PyFloat(ParseInt(SubSeq(number, 1, p - 1), 10),
                             StripZeros(SubSeq(number, p + 1, Len(number))))]

\* int(symbol_addr, 16) of '0x' followed by hexadecimal digits
HexOf(symbol_addr) ==
    IF Len(symbol_addr) <= 2 THEN [exc |-> "ValueError", val |-> 0]
    ELSE [exc |-> "", val |-> ParseInt(SubSeq(symbol_addr, 3, Len(symbol_addr)), 16)]

----------------------------------------------------------------------------
(* Tokens *)

Position(line, col) == [line |-> line, col |-> col]
RangePos(start_pos, end_pos) == [start_pos |-> start_pos, end_pos |-> end_pos]
Token(type, pos, value) == [type |-> type, pos |-> pos, value |-> value]

----------------------------------------------------------------------------
(* Scanner *)

\* the attribute cur_char before the first assignment to it
Unset == "Unset"

Raise(s, e) == [s EXCEPT !.exc = e]

\* Scanner.advance: next(self.source) is the character after index
Advance(s) ==
    IF s.index + 1 < Len(s.source_lit)
    THEN LET c == s.source_lit[s.index + 2]
         IN [s EXCEPT !.cur_char = c,
                      !.index = s.index + 1,
                      !.cur_pos = Position(s.line, s.col),
                      !.line = IF c = NEWLINE THEN s.line + 1 ELSE s.line,
                      !.col = IF c = NEWLINE THEN 1 ELSE s.col + 1]
    ELSE IF s.cur_char = Unset
         THEN Raise([s EXCEPT !.cur_pos = Position(s.line, s.col)], "AttributeError")
         ELSE [s EXCEPT !.cur_pos = Position(s.line, s.col),
                        !.col = IF s.cur_char # None THEN s.col + 1 ELSE s.col,
                        !.cur_char = None]

\* Scanner.peek: source_lit[clamp(index + offset, 0, len(source_lit))];
\* the clamp lets the index reach len(source_lit), where indexing raises
PeekRaises(s, offset) ==
    clamp(s.index + offset, 0, Len(s.source_lit)) >= Len(s.source_lit)

Peek(s, offset) == s.source_lit[clamp(s.index + offset, 0, Len(s.source_lit)) + 1]

\* Scanner.__init__
ScannerNew(source) ==
    LET s0 == [source_lit |-> source, index |-> -1, line |-> 1, col |-> 0,
               cur_char |-> Unset, cur_pos |-> Position(1, 0),
               tokens |-> <<>>, exc |-> ""]
        s1 == Advance(s0)
    IN IF s1.exc # "" THEN s1
       ELSE [s1 EXCEPT !.cur_pos = Position(s1.line, s1.col)]

\* Scanner.expect with a list of characters
Expect(s, chars) ==
    IF s.cur_char # None /\ s.cur_char \notin Range(chars)
    THEN Raise(s, "ScannerError")
    ELSE Advance(s)

AppendToken(s, type, start_pos, value) ==
    [s EXCEPT !.tokens = Append(s.tokens, Token(type, RangePos(start_pos, s.cur_pos), value))]

\* which branch of tokenize's if/elif chain the current character takes;
\* the two comment tests call peek(1) whenever cur_char is '/', and the
\* number test calls it whenever cur_char is '.'
Branch(s, lineComments) ==
    LET c == s.cur_char IN
    IF c = "/" /\ PeekRaises(s, 1) THEN "IndexError"
    ELSE IF ~lineComments /\ c = "/" /\ Peek(s, 1) = "/" THEN "no_comment"
    ELSE IF lineComments /\ c = "/" /\ Peek(s, 1) = "/" THEN "comment"
    ELSE IF IsSpace(c) THEN "space"
    ELSE IF IsDigit(c) THEN "number"
    ELSE IF c = "." /\ PeekRaises(s, 1) THEN "IndexError"
    ELSE IF c = "." /\ IsDigit(Peek(s, 1)) THEN "number"
    ELSE IF c = QUOTE THEN "string"
    ELSE IF IsAlnum(c) THEN "ident"
    ELSE "char"

RECURSIVE SkipLine(_)
\* while self.cur_char is not None and self.cur_char != '\n': self.advance()
SkipLine(s) ==
    IF s.cur_char # None /\ s.cur_char # NEWLINE THEN SkipLine(Advance(s)) ELSE s

\* the comment branch of tokenize
ScanComment(s) ==
    LET s1 == Advance(SkipLine(s))
    IN [s1 EXCEPT !.line = s1.line + 1, !.col = 1]

RECURSIVE ScanSpace(_)
\* the whitespace branch of tokenize
ScanSpace(s) ==
    IF s.cur_char # None /\ IsSpace(s.cur_char) THEN ScanSpace(Advance(s)) ELSE s

RECURSIVE NumberLoop(_, _, _)
\* the while loop of the number branch; gives the scanner, number and points
NumberLoop(s, number, points) ==
    IF s.cur_char # None /\ (IsDigit(s.cur_char) \/ s.cur_char = ".")
    THEN IF points > 1
         THEN [s |-> Raise(s, "ScannerError"), number |-> number, points |-> points]
         ELSE LET n1 == Append(number, Peek(s, 0))
                  s1 == Advance(s)
              IN IF s1.cur_char = "."
                 THEN NumberLoop(Advance(s1), Append(n1, Peek(s1, 0)), points + 1)
                 ELSE NumberLoop(s1, n1, points)
    ELSE [s |-> s, number |-> number, points |-> points]

\* the end of the number branch: the token of the value int() or float()
\* gave, or the ValueError it raised
NumberToken(s, start_pos, value) ==
    IF value.exc # "" THEN Raise(s, value.exc)
    ELSE AppendToken(s, "NumberLit", start_pos, value.val)

\* the number branch after its loop, r what the loop gave
NumberValue(start_pos, r) ==
    IF r.s.exc # "" THEN r.s
    ELSE NumberToken(r.s, start_pos,
                     IF r.points = 0 THEN IntOf(r.number) ELSE FloatOf(r.number))

\* the number branch of tokenize
ScanNumber(s) ==
    NumberValue(s.cur_pos,
                IF s.cur_char = "." /\ IsDigit(Peek(s, 1))
                THEN NumberLoop(Advance(s), <<Peek(s, 0)>>, 1)
                ELSE NumberLoop(s, <<>>, 0))

RECURSIVE HexLoop(_, _)
\* the while loop of the 'u' escape; gives the scanner and symbol_addr
HexLoop(s, symbol_addr) ==
    IF s.cur_char # None /\ s.cur_char \in Range(HexDigits)
    THEN LET a1 == Append(symbol_addr, Peek(s, 0))
             s1 == Expect(s, HexDigits)
         IN IF s1.exc # "" THEN [s |-> s1, symbol_addr |-> a1]
            ELSE IF Len(a1) # 6 /\ Peek(s1, 0) \notin Range(HexDigits)
            THEN [s |-> Raise(s1, "ScannerError"), symbol_addr |-> a1]
            ELSE HexLoop(s1, a1)
    ELSE [s |-> s, symbol_addr |-> symbol_addr]

\* the end of the 'u' escape: string += chr(n), n what int(symbol_addr, 16)
\* gave, or the ValueError it raised
EscapeChr(s, string, n) ==
    IF n.exc # "" THEN [s |-> Raise(s, n.exc), string |-> string]
    ELSE [s |-> s, string |-> Append(string, Chr(n.val))]

\* the 'u' escape after its loop, h what the loop gave
EscapeHex(h, string) ==
    IF h.s.exc # "" THEN [s |-> h.s, string |-> string]
    ELSE IF Len(h.symbol_addr) > 6
    THEN [s |-> Raise(h.s, "ScannerError"), string |-> string]
    ELSE EscapeChr(h.s, string, HexOf(h.symbol_addr))

\* the match on the character after the backslash
EscapeMatch(s, string) ==
    LET simple(x) == [s |-> Advance(s), string |-> Append(string, x)]
    IN IF s.cur_char = BACKSLASH THEN simple(BACKSLASH)
       ELSE IF s.cur_char = "n" THEN simple("\n")
       ELSE IF s.cur_char = "t" THEN simple("\t")
       ELSE IF s.cur_char = "b" THEN simple(Chr(8))
       ELSE IF s.cur_char = "f" THEN simple("\f")
       ELSE IF s.cur_char = "r" THEN simple("\r")
       ELSE IF s.cur_char = "u" THEN EscapeHex(HexLoop(Advance(s), <<"0", "x">>), string)
       ELSE [s |-> Raise(s, "ScannerError"), string |-> string]

\* the escape of the string branch, entered with cur_char = '\\';
\* gives the scanner and the string
Escape(s, string) == EscapeMatch(Advance(s), string)

RECURSIVE StringLoop(_, _)

\* the end of the loop body of the string branch: the test of the
\* character that follows the one eaten
StringCheck(s, string) ==
    IF s.cur_char = None \/ s.cur_char = NEWLINE
    THEN [s |-> Raise(s, "ScannerError"), string |-> string]
    ELSE StringLoop(s, string)

\* string += self.eat(), e what the escape before it gave
StringEat(e) ==
    IF e.s.exc # "" THEN e
    ELSE StringCheck(Advance(e.s), Append(e.string, Peek(e.s, 0)))

\* the while loop of the string branch; gives the scanner and the string
StringLoop(s, string) ==
    IF s.cur_char # None /\ s.cur_char # QUOTE
    THEN StringEat(IF s.cur_char = BACKSLASH THEN Escape(s, string)
                   ELSE [s |-> s, string |-> string])
    ELSE [s |-> s, string |-> string]

\* the string branch after its loop, r what the loop gave
StringToken(start_pos, r) ==
    IF r.s.exc # "" THEN r.s
    ELSE AppendToken(Advance(r.s), "StringLit", start_pos, PyStr(r.string))

\* the string branch of tokenize
ScanString(s) == StringToken(s.cur_pos, StringLoop(Advance(s), <<>>))

RECURSIVE IdentLoop(_, _)
IdentLoop(s, ident) ==
    IF s.cur_char # None /\ IsAlnum(s.cur_char)
    THEN IdentLoop(Advance(s), Append(ident, Peek(s, 0)))
    ELSE [s |-> s, ident |-> ident]

\* the identifier branch of tokenize
ScanIdent(s) ==
    LET start_pos == s.cur_pos
        r == IdentLoop(s, <<>>)
    IN IF r.ident = <<"f", "a", "l", "s", "e">>
       THEN AppendToken(r.s, "BoolLit", start_pos, PyBool(FALSE))
       ELSE IF r.ident = <<"t", "r", "u", "e">>
       THEN AppendToken(r.s, "BoolLit", start_pos, PyBool(TRUE))
       ELSE Raise(r.s, "ScannerError")

\* the token type of a single-character token, or None
CharType(c) ==
    CASE c = ":" -> "Colon"
      [] c = "," -> "Comma"
      [] c = "[" -> "LBracket"
      [] c = "]" -> "RBracket"
      [] c = "{" -> "LBrace"
      [] c = "}" -> "RBrace"
      [] OTHER -> None

\* the last branch of tokenize: the single-character tokens
ScanChar(s) ==
    IF CharType(s.cur_char) = None THEN Raise(s, "ScannerError")
    ELSE AppendToken(Advance(s), CharType(s.cur_char), s.cur_pos, PyStr(<<s.cur_char>>))

\* one iteration of the while loop of tokenize
TokenizeStep(s, lineComments) ==
    LET b == Branch(s, lineComments) IN
    CASE b = "IndexError" -> Raise(s, "IndexError")
      [] b = "no_comment" -> Raise(s, "ScannerError")
      [] b = "comment" -> ScanComment(s)
      [] b = "space" -> ScanSpace(s)
      [] b = "number" -> ScanNumber(s)
      [] b = "string" -> ScanString(s)
      [] b = "ident" -> ScanIdent(s)
      [] OTHER -> ScanChar(s)

\* tokenize is still in its loop
Scanning(s) == s.exc = "" /\ s.cur_char # None

RECURSIVE TokenizeFrom(_, _)
TokenizeFrom(s, lineComments) ==
    IF Scanning(s) THEN TokenizeFrom(TokenizeStep(s, lineComments), lineComments) ELSE s

\* Scanner(source).tokenize(): the scanner when tokenize returned or raised
Tokenize(source, lineComments) == TokenizeFrom(ScannerNew(source), lineComments)

----------------------------------------------------------------------------
(* Nodes *)

JsonBlock(nodes) == [kind |-> "JsonBlock", nodes |-> nodes]
Node(key, value) == [kind |-> "Node", key |-> key, value |-> value]
StringNode(value) == [kind |-> "StringNode", value |-> value]
NumberNode(value) == [kind |-> "NumberNode", value |-> value]
BooleanNode(value) == [kind |-> "BooleanNode", value |-> value]
ArrayNode(value) == [kind |-> "ArrayNode", value |-> value]

----------------------------------------------------------------------------
(* Parser *)

\* cur_token = None
NoToken == [type |-> None]

\* raise exception class e with message msg
RaiseP(p, e, msg) == [p EXCEPT !.exc = e, !.msg = msg]

\* Parser.advance
AdvanceP(p) ==
    IF p.index + 1 < Len(p.tokens_lit)
    THEN [p EXCEPT !.cur_token = p.tokens_lit[p.index + 2], !.index = p.index + 1]
    ELSE [p EXCEPT !.cur_token = NoToken]

\* Parser.__init__
ParserNew(tokens) ==
    AdvanceP([tokens_lit |-> tokens, index |-> -1, fields_count |-> 0,
              cur_token |-> NoToken, exc |-> "", msg |-> ""])

\* Parser.expect
ExpectP(p, tok_type, do_advance) ==
    IF p.cur_token.type = None \/ p.cur_token.type # tok_type
    THEN RaiseP(p, "ParserError", "Expected")
    ELSE IF do_advance THEN AdvanceP(p) ELSE p

\* what a parsing method gives: the parser and the value returned
Ret(p, val) == [p |-> p, val |-> val]

\* return val, unless the statement before raised
RetUnlessRaised(p, val) == Ret(p, IF p.exc # "" THEN None ELSE val)

RECURSIVE Parse(_, _)
RECURSIVE ParseFieldsLoop(_, _, _, _)
RECURSIVE ParseField(_, _)
RECURSIVE ParsePrimary(_, _)
RECURSIVE ParseArrValuesLoop(_, _, _)
RECURSIVE ParseFields(_, _)
RECURSIVE ParseArrValues(_, _)

\* parse after parse_fields: self.expect(TokenType.RBrace, '}') and
\* return JsonBlock(fields)
ParseBlock(fields) ==
    IF fields.p.exc # "" THEN fields
    ELSE RetUnlessRaised(ExpectP(fields.p, "RBrace", TRUE), JsonBlock(fields.val))

\* Parser.parse
Parse(p, maxCapacity) ==
    IF p.cur_token.type = None THEN Ret(RaiseP(p, "ParserError", "Expected token"), None)
    ELSE IF p.cur_token.type = "LBrace"
    THEN ParseBlock(ParseFields(AdvanceP(p), maxCapacity))
    ELSE Ret(RaiseP(p, "ParserError", "Unexpected token"), None)

\* after self.expect(TokenType.Comma, ','): self.cur_token.type, an
\* AttributeError when cur_token is None, and the trailing comma test
AfterComma(p, closing) ==
    IF p.exc # "" THEN p
    ELSE IF p.cur_token.type = None
    THEN RaiseP(p, "AttributeError", "'NoneType' object has no attribute 'type'")
    ELSE IF p.cur_token.type = closing
    THEN RaiseP(p, "ParserError", "Unexpected trailing comma")
    ELSE p

\* parse_fields, after parse_field: the duplicate check and the capacity
\* check, on the count and the keys with the field added
CountField(p, keys, maxCapacity) ==
    IF Len(keys) # Cardinality(Range(keys))
    THEN RaiseP(p, "ParserError", "Duplicated key found")
    ELSE IF p.fields_count > maxCapacity
    THEN RaiseP(p, "ParserError", "Fields count greeter then maximum capacity")
    ELSE p

\* parse_fields, the end of the loop body: the separator after a field
FieldSeparator(p) ==
    IF p.cur_token.type # None /\ p.cur_token.type # "RBrace"
    THEN AfterComma(ExpectP(p, "Comma", TRUE), "RBrace")
    ELSE IF p.cur_token.type = None
    THEN RaiseP(p, "ParserError", "Expected '}'")
    ELSE p

\* parse_fields, the next turn of the loop unless the body raised
FieldsNext(p, fields, keys, maxCapacity) ==
    IF p.exc # "" THEN Ret(p, None)
    ELSE ParseFieldsLoop(p, fields, keys, maxCapacity)

\* parse_fields, the loop body after the checks
FieldChecked(p, fields, keys, maxCapacity) ==
    IF p.exc # "" THEN Ret(p, None)
    ELSE FieldsNext(FieldSeparator(p), fields, keys, maxCapacity)

\* parse_fields, the loop body after parse_field gave field
FieldParsed(field, fields, keys, maxCapacity) ==
    IF field.p.exc # "" THEN field
    ELSE FieldChecked(CountField([field.p EXCEPT !.fields_count = @ + 1],
                                 Append(keys, field.val.key.value), maxCapacity),
                      Append(fields, field.val),
                      Append(keys, field.val.key.value), maxCapacity)

\* the while loop of Parser.parse_fields
ParseFieldsLoop(p, fields, keys, maxCapacity) ==
    IF p.cur_token.type # None /\ p.cur_token.type # "RBrace"
    THEN FieldParsed(ParseField(p, maxCapacity), fields, keys, maxCapacity)
    ELSE Ret(p, fields)

\* Parser.parse_fields
ParseFields(p, maxCapacity) == ParseFieldsLoop(p, <<>>, <<>>, maxCapacity)

\* parse_field, the return after the second parse_primary gave value
FieldNode(key, value) ==
    IF value.p.exc # "" THEN value ELSE Ret(value.p, Node(key, value.val))

\* parse_field after self.expect(TokenType.Colon, ':')
FieldValue(key, p, maxCapacity) ==
    IF p.exc # "" THEN Ret(p, None)
    ELSE FieldNode(key, ParsePrimary(p, maxCapacity))

\* parse_field after the first parse_primary gave key
FieldColon(key, maxCapacity) ==
    IF key.p.exc # "" THEN key
    ELSE FieldValue(key.val, ExpectP(key.p, "Colon", TRUE), maxCapacity)

\* parse_field after self.expect(TokenType.StringLit, 'str', do_advance = False)
FieldKey(p, maxCapacity) ==
    IF p.exc # "" THEN Ret(p, None)
    ELSE FieldColon(ParsePrimary(p, maxCapacity), maxCapacity)

\* Parser.parse_field (the key's position is left out)
ParseField(p, maxCapacity) == FieldKey(ExpectP(p, "StringLit", FALSE), maxCapacity)

\* parse_primary after parse_arr_values: self.expect(TokenType.RBracket, ']')
\* and return ArrayNode(arr_values)
PrimaryArray(arr_values) ==
    IF arr_values.p.exc # "" THEN arr_values
    ELSE RetUnlessRaised(ExpectP(arr_values.p, "RBracket", TRUE), ArrayNode(arr_values.val))

\* Parser.parse_primary
ParsePrimary(p, maxCapacity) ==
    IF p.cur_token.type = None THEN Ret(RaiseP(p, "ParserError", "Expected token"), None)
    ELSE IF p.cur_token.type = "NumberLit" THEN Ret(AdvanceP(p), NumberNode(p.cur_token.value))
    ELSE IF p.cur_token.type = "StringLit" THEN Ret(AdvanceP(p), StringNode(p.cur_token.value))
    ELSE IF p.cur_token.type = "BoolLit" THEN Ret(AdvanceP(p), BooleanNode(p.cur_token.value))
    ELSE IF p.cur_token.type = "LBracket"
    THEN PrimaryArray(ParseArrValues(AdvanceP(p), maxCapacity))
    ELSE IF p.cur_token.type = "LBrace" THEN Parse(p, maxCapacity)
    ELSE Ret(RaiseP(p, "ParserError", "Unexpected token"), None)

\* parse_arr_values, the end of the loop body: the separator after a value;
\* self.cur_token.type is an AttributeError when cur_token is None
ValueSeparator(p) ==
    IF p.cur_token.type = None
    THEN RaiseP(p, "AttributeError", "'NoneType' object has no attribute 'type'")
    ELSE IF p.cur_token.type # "RBracket"
    THEN AfterComma(ExpectP(p, "Comma", TRUE), "RBracket")
    ELSE p

\* parse_arr_values, the next turn of the loop unless the body raised
ValuesNext(p, fields, maxCapacity) ==
    IF p.exc # "" THEN Ret(p, None)
    ELSE ParseArrValuesLoop(p, fields, maxCapacity)

\* parse_arr_values, the loop body after parse_primary gave v
ValueParsed(v, fields, maxCapacity) ==
    IF v.p.exc # "" THEN v
    ELSE ValuesNext(ValueSeparator(v.p), Append(fields, v.val), maxCapacity)

\* the while loop of Parser.parse_arr_values
ParseArrValuesLoop(p, fields, maxCapacity) ==
    IF p.cur_token.type # None /\ p.cur_token.type # "RBracket"
    THEN ValueParsed(ParsePrimary(p, maxCapacity), fields, maxCapacity)
    ELSE Ret(p, fields)

\* Parser.parse_arr_values
ParseArrValues(p, maxCapacity) == ParseArrValuesLoop(p, <<>>, maxCapacity)

\* what Parser.parse gave, as the exception raised, its message and the tree
ParseResult(r) == [exc |-> r.p.exc, msg |-> r.p.msg, val |-> r.val]

\* Parser(tokens).parse() on the tokens of a scanner, unless tokenize raised
ParseTokens(s, maxCapacity) ==
    IF s.exc # "" THEN [exc |-> s.exc, msg |-> "", val |-> None]
    ELSE ParseResult(Parse(ParserNew(s.tokens), maxCapacity))

\* parse_string(source): Parser(Scanner(source).tokenize()).parse();
\* gives the exception raised ("" for none) and the tree
ParseString(source, lineComments, maxCapacity) ==
    ParseTokens(Tokenize(source, lineComments), maxCapacity)

----------------------------------------------------------------------------
(* Rendering: the __str__ of the nodes, and json.dumps *)

RECURSIVE Concat(_)
\* the concatenation of a sequence of texts
Concat(texts) == IF texts = <<>> THEN <<>> ELSE Head(texts) \o Concat(Tail(texts))

RECURSIVE Join(_, _)
\* sep.join(texts)
Join(sep, texts) ==
    IF texts = <<>> THEN <<>>
    ELSE IF Len(texts) = 1 THEN texts[1]
    ELSE texts[1] \o sep \o Join(sep, Tail(texts))

RECURSIVE NatToText(_)
NatToText(n) == IF n < 10 THEN <<Digits[n + 1]>> ELSE NatToText(n \div 10) \o <<Digits[(n % 10) + 1]>>

\* str(n) of an int
IntToText(n) == IF n < 0 THEN <<"-">> \o NatToText(-n) ELSE NatToText(n)

LeadingZeros(ds) ==
    IF \A i \in DOMAIN ds : ds[i] = "0" THEN Len(ds)
    ELSE (CHOOSE i \in DOMAIN ds : ds[i] # "0" /\ \A j \in 1..(i - 1) : ds[j] = "0") - 1

\* repr(x) of a float given by its decimal digits (below 1e16): positional,
\* or with an exponent when the value is below 1e-4
FloatToText(ip, fr) ==
    IF ip = 0 /\ fr # <<>> /\ LeadingZeros(fr) >= 4
    THEN LET z == LeadingZeros(fr)
             m == SubSeq(fr, z + 1, Len(fr))
             e == NatToText(z + 1)
         IN <<m[1]>> \o (IF Len(m) > 1 THEN <<".">> \o Tail(m) ELSE <<>>)
            \o <<"e", "-">> \o (IF Len(e) < 2 THEN <<"0">> ELSE <<>>) \o e
    ELSE NatToText(ip) \o <<".">> \o (IF fr = <<>> THEN <<"0">> ELSE fr)

\* str(value) of an int, a float, a bool or a str
PyToText(value) ==
    CASE value.t = "int" -> IntToText(value.v)
      [] value.t = "float" -> FloatToText(value.v[1], value.v[2])
      [] value.t = "bool" -> IF value.v THEN <<"T", "r", "u", "e">> ELSE <<"F", "a", "l", "s", "e">>
      [] value.t = "str" -> value.v
      [] OTHER -> <<"N", "o", "n", "e">>

RECURSIVE Str(_)
\* the __str__ (and __repr__) of each node class
Str(n) ==
    CASE n.kind = "JsonBlock" ->
            <<"{">> \o Join(<<",", " ">>, [i \in DOMAIN n.nodes |-> Str(n.nodes[i])]) \o <<"}">>
      [] n.kind = "Node" -> Str(n.key) \o <<":", " ">> \o Str(n.value)
      [] n.kind = "StringNode" -> <<QUOTE>> \o PyToText(n.value) \o <<QUOTE>>
      [] n.kind = "NumberNode" -> PyToText(n.value)
      [] n.kind = "BooleanNode" ->
            IF n.value.v THEN <<"f", "a", "l", "s", "e">> ELSE <<"t", "r", "u", "e">>
      [] n.kind = "ArrayNode" ->
            <<"[">> \o Join(<<",", " ">>, [i \in DOMAIN n.value |-> Str(n.value[i])]) \o <<"]">>

\* the escape json.dumps writes for a character of a string (the characters
\* of the model: printable ASCII and the control characters it names)
JsonEscape(c) ==
    CASE c = QUOTE -> <<BACKSLASH, QUOTE>>
      [] c = BACKSLASH -> <<BACKSLASH, BACKSLASH>>
      [] c = "\n" -> <<BACKSLASH, "n">>
      [] c = "\t" -> <<BACKSLASH, "t">>
      [] c = "\r" -> <<BACKSLASH, "r">>
      [] c = "\f" -> <<BACKSLASH, "f">>
      [] c = Chr(8) -> <<BACKSLASH, "b">>
      [] OTHER -> <<c>>

JsonString(chars) ==
    <<QUOTE>> \o Concat([i \in DOMAIN chars |-> JsonEscape(chars[i])]) \o <<QUOTE>>

\* the key json.dumps writes for a dict key: str, int, float, bool and None
\* keys are accepted, the others raise TypeError
JsonKey(key) ==
    CASE key.t = "str" -> [exc |-> "", text |-> JsonString(key.v)]
      [] key.t = "int" -> [exc |-> "", text |-> <<QUOTE>> \o IntToText(key.v) \o <<QUOTE>>]
      [] key.t = "float" ->
            [exc |-> "", text |-> <<QUOTE>> \o FloatToText(key.v[1], key.v[2]) \o <<QUOTE>>]
      [] key.t = "bool" ->
            [exc |-> "", text |-> IF key.v THEN <<QUOTE, "t", "r", "u", "e", QUOTE>>
                                  ELSE <<QUOTE, "f", "a", "l", "s", "e", QUOTE>>]
      [] key.t = "NoneType" -> [exc |-> "", text |-> <<QUOTE, "n", "u", "l", "l", QUOTE>>]
      [] OTHER -> [exc |-> "TypeError", text |-> <<>>]

RECURSIVE JsonDumps(_)
\* json.dumps(value) with its default separators
JsonDumps(value) ==
    CASE value.t = "int" -> [exc |-> "", text |-> IntToText(value.v)]
      [] value.t = "float" -> [exc |-> "", text |-> FloatToText(value.v[1], value.v[2])]
      [] value.t = "bool" ->
            [exc |-> "", text |-> IF value.v THEN <<"t", "r", "u", "e">>
                                  ELSE <<"f", "a", "l", "s", "e">>]
      [] value.t = "str" -> [exc |-> "", text |-> JsonString(value.v)]
      [] value.t = "NoneType" -> [exc |-> "", text |-> <<"n", "u", "l", "l">>]
      [] value.t \in {"list", "tuple"} ->
            LET parts == [i \in DOMAIN value.v |-> JsonDumps(value.v[i])]
            IN IF \E i \in DOMAIN parts : parts[i].exc # ""
               THEN [exc |-> "TypeError", text |-> <<>>]
               ELSE [exc |-> "",
                     text |-> <<"[">> \o Join(<<",", " ">>, [i \in DOMAIN parts |-> parts[i].text])
                              \o <<"]">>]
      [] value.t = "dict" ->
            LET keys == [i \in DOMAIN value.v |-> JsonKey(value.v[i][1])]
                vals == [i \in DOMAIN value.v |-> JsonDumps(value.v[i][2])]
            IN IF \E i \in DOMAIN keys : keys[i].exc # "" \/ vals[i].exc # ""
               THEN [exc |-> "TypeError", text |-> <<>>]
               ELSE [exc |-> "",
                     text |-> <<"{">>
                              \o Join(<<",", " ">>,
                                      [i \in DOMAIN keys |-> keys[i].text \o <<":", " ">> \o vals[i].text])
                              \o <<"}">>]
      [] OTHER -> [exc |-> "TypeError", text |-> <<>>]

----------------------------------------------------------------------------
(* JsonBlock: lookup, indexed read and indexed write *)

\* JsonBlock.__find_key: the (1-based) place of the first pair with the key,
\* or JsonError
FindKey(block, key) ==
    LET hits == {i \in DOMAIN block.nodes : block.nodes[i].key.value = key}
    IN IF hits = {} THEN [exc |-> "JsonError", index |-> 0]
       ELSE [exc |-> "", index |-> CHOOSE i \in hits : \A j \in hits : i <= j]

\* JsonBlock.keys
Keys(block) == [i \in DOMAIN block.nodes |-> block.nodes[i].key.value]

\* JsonBlock.__getitem__
GetItem(block, key) ==
    LET f == FindKey(block, key)
    IN IF f.exc # "" THEN [exc |-> f.exc, val |-> None]
       ELSE [exc |-> "", val |-> block.nodes[f.index].value]

\* a value given, nothing raised
Val(n) == [exc |-> "", val |-> n]

\* Parser(Scanner(text).tokenize()).parse() on the text json.dumps gave,
\* unless json.dumps raised
ParseDumped(d, lineComments, maxCapacity) ==
    IF d.exc # "" THEN [exc |-> d.exc, val |-> None]
    ELSE [exc |-> ParseString(d.text, lineComments, maxCapacity).exc,
          val |-> ParseString(d.text, lineComments, maxCapacity).val]

\* Parser(Scanner(json.dumps(value)).tokenize()).parse()
ParseDict(value, lineComments, maxCapacity) ==
    ParseDumped(JsonDumps(value), lineComments, maxCapacity)

RECURSIVE ConvertListToArr(_, _, _)
RECURSIVE ConvertLoop(_, _, _, _)

\* the body of the for loop of JsonBlock.__convert_list_to_arr: the node
\* appended for one value
ConvertValue(value, lineComments, maxCapacity) ==
    IF IsIntOrFloat(value) THEN Val(NumberNode(value))
    ELSE IF value.t = "str" THEN Val(StringNode(value))
    ELSE IF value.t = "bool" THEN Val(BooleanNode(value))
    ELSE IF value.t = "dict" THEN ParseDict(value, lineComments, maxCapacity)
    ELSE IF value.t = "list" THEN ConvertListToArr(value.v, lineComments, maxCapacity)
    ELSE [exc |-> "TypeError", val |-> None]

\* result.append(node) and the next turn of the loop, unless the body raised
Converted(r, values, result, lineComments, maxCapacity) ==
    IF r.exc # "" THEN r
    ELSE ConvertLoop(values, Append(result, r.val), lineComments, maxCapacity)

\* the for loop of JsonBlock.__convert_list_to_arr; gives the exception
\* raised and the list result
ConvertLoop(values, result, lineComments, maxCapacity) ==
    IF values = <<>> THEN Val(result)
    ELSE Converted(ConvertValue(Head(values), lineComments, maxCapacity),
                   Tail(values), result, lineComments, maxCapacity)

\* return ArrayNode(result), unless the loop raised
ArrayOf(r) == IF r.exc # "" THEN r ELSE Val(ArrayNode(r.val))

\* JsonBlock.__convert_list_to_arr
ConvertListToArr(values, lineComments, maxCapacity) ==
    ArrayOf(ConvertLoop(values, <<>>, lineComments, maxCapacity))

\* the node JsonBlock.__setitem__ makes of the value
SetValue(value, lineComments, maxCapacity) ==
    IF IsIntOrFloat(value) THEN Val(NumberNode(value))
    ELSE IF value.t = "str" THEN Val(StringNode(value))
    ELSE IF value.t = "bool" THEN Val(BooleanNode(value))
    ELSE IF value.t = "list" THEN ConvertListToArr(value.v, lineComments, maxCapacity)
    ELSE IF value.t = "dict" THEN ParseDict(value, lineComments, maxCapacity)
    ELSE [exc |-> "TypeError", val |-> None]

\* self.nodes.append(Node(StringNode(key), node)): what a write that added
\* its pair, rather than assigning at key_index, would do
StorePairAppended(block, key_index, key, node) ==
    [block EXCEPT !.nodes = Append(@, Node(StringNode(key), node))]

\* self.nodes[key_index] = Node(StringNode(key), node)
StorePair(block, key_index, key, node) ==
    [block EXCEPT !.nodes[key_index] = Node(StringNode(key), node)]

\* the assignment of JsonBlock.__setitem__, which an exception raised while
\* the node is made never reaches
Store(block, key_index, key, r) ==
    IF r.exc # "" THEN [exc |-> r.exc, block |-> block]
    ELSE [exc |-> "", block |-> StorePair(block, key_index, key, r.val)]

\* JsonBlock.__setitem__; gives the exception raised and the block afterwards
SetItem(block, key, value, lineComments, maxCapacity) ==
    IF FindKey(block, key).exc # "" THEN [exc |-> FindKey(block, key).exc, block |-> block]
    ELSE Store(block, FindKey(block, key).index, key,
               SetValue(value, lineComments, maxCapacity))

\* ArrayNode.__getitem__ with an index in range
ArrayGetItem(array, index) == array.value[index + 1]

----------------------------------------------------------------------------
(* Inputs *)

\* all sequences of at most n elements of the set S
SeqsUpTo(S, n) == UNION {[1..k -> S] : k \in 0..n}

\* pieces of number literals and of the characters that end on a peek
NumberPieces == {<<"1">>, <<".">>, <<"/">>}

\* pieces of string literals: the quote, plain characters, escapes
StringPieces ==
    {<<QUOTE>>, <<"a">>, <<NEWLINE>>, <<BACKSLASH>>, <<BACKSLASH, "n">>,
     <<BACKSLASH, "u">>, <<BACKSLASH, "u", "0", "0", "4", "1">>}

\* pieces of every branch of tokenize
ScanPieces ==
    NumberPieces \cup StringPieces \cup
    {<<" ">>, <<"t", "r", "u", "e">>, <<":">>, <<"{">>, <<"#">>, <<"/", "/">>}

\* pieces of commented texts of several lines
CommentPieces == {<<"/", "/">>, <<NEWLINE>>, <<" ">>, <<"{">>}

\* the source texts of the scanner specification: at most n pieces, and a
\* few more in the texts of number pieces, of string pieces or of comment
\* pieces alone
ScanSources(n) ==
    {Concat(ps) : ps \in SeqsUpTo(ScanPieces, n)}
    \cup {Concat(ps) : ps \in SeqsUpTo(NumberPieces, n + 2)}
    \cup {Concat(ps) : ps \in SeqsUpTo(StringPieces, n + 1)}
    \cup {Concat(ps) : ps \in SeqsUpTo(CommentPieces, n + 1)}

\* lexemes of the token lists of the parser specification
ParsePieces ==
    {<<"{">>, <<"}">>, <<"[">>, <<"]">>, <<",">>, <<":">>, <<QUOTE, "a", QUOTE>>, <<"1">>}

KeyNames == <<"a", "b", "c", "d", "e", "f">>

\* the values of the documents: literals, an object, an array holding an
\* object, an object with a duplicate key
ValueTexts ==
    << <<"t", "r", "u", "e">>,
       <<QUOTE, "s", QUOTE>>,
       <<"2", ".", "5", "0">>,
       <<"{", QUOTE, "a", QUOTE, ":", " ", "1", ",", " ", QUOTE, "b", QUOTE, ":", " ",
         "f", "a", "l", "s", "e", "}">>,
       <<"[", "{", QUOTE, "a", QUOTE, ":", " ", "1", "}", ",", " ", "2", "]">>,
       <<"{", QUOTE, "a", QUOTE, ":", " ", "1", ",", " ", QUOTE, "a", QUOTE, ":", " ", "2", "}">> >>

\* the document of n fields whose values are ValueTexts from place start on
\* (cyclically) and whose keys are the first n KeyNames, the last one
\* replaced by the first when dup
DocText(n, start, dup) ==
    LET key(i) == IF dup /\ i = n /\ n >= 2 THEN KeyNames[1] ELSE KeyNames[i]
        value(i) == ValueTexts[((start + i - 2) % Len(ValueTexts)) + 1]
        field(i) == <<QUOTE, key(i), QUOTE, ":", " ">> \o value(i)
    IN <<"{">> \o Join(<<",", " ">>, [i \in 1..n |-> field(i)]) \o <<"}">>

\* the documents of the parser and tree specifications
DocSources ==
    {DocText(n, start, dup) : n \in 0..MaxFields, start \in DOMAIN ValueTexts, dup \in BOOLEAN}

\* the token lists of the parser specification: the tokens of every text
\* of at most n lexemes and of every document, and what is left of them
\* when the tokens run out early
ParseTokenLists(n) ==
    LET texts == {Concat(ps) : ps \in SeqsUpTo(ParsePieces, n)} \cup DocSources
        full == {Tokenize(text, FALSE).tokens : text \in texts \ {<<>>}} \cup {<<>>}
    IN UNION {{SubSeq(tokens, 1, k) : k \in 0..Len(tokens)} : tokens \in full}

\* MAX_CAPACITY: int = 65355
DefaultMaxCapacity == 65355

\* no Scanner was made
NoScanner ==
    [source_lit |-> <<>>, index |-> -1, line |-> 1, col |-> 0, cur_char |-> Unset,
     cur_pos |-> Position(1, 0), tokens |-> <<>>, exc |-> ""]
NoParser == [p |-> ParserNew(<<>>), val |-> None, done |-> FALSE]
NoTree == [kind |-> None]
\* no operation on the tree yet
NoOp ==
    [op |-> None, path |-> <<>>, key |-> PyNone, value |-> PyNone, exc |-> "",
     result |-> NoTree]

----------------------------------------------------------------------------
(* The scanner, one iteration of tokenize's loop at a time *)

InitScan ==
    /\ LINE_COMMENTS \in BOOLEAN
    /\ MAX_CAPACITY = DefaultMaxCapacity
    /\ \E source \in ScanSources(MaxPieces) : scanner = ScannerNew(source)
    /\ parser = NoParser
    /\ tree = NoTree
    /\ last = NoOp
    /\ writes = 0

\* what tokenize leaves alone
scanFrame == <<LINE_COMMENTS, MAX_CAPACITY, parser, tree, last, writes>>

\* peek(1) on the last character: '/' or '.' at the end of the source
TokenizePeekRaises ==
    /\ Scanning(scanner)
    /\ Branch(scanner, LINE_COMMENTS) = "IndexError"
    /\ scanner' = Raise(scanner, "IndexError")
    /\ UNCHANGED scanFrame

\* '//' with LINE_COMMENTS off
TokenizeNoComment ==
    /\ Scanning(scanner)
    /\ Branch(scanner, LINE_COMMENTS) = "no_comment"
    /\ scanner' = Raise(scanner, "ScannerError")
    /\ UNCHANGED scanFrame

\* '//' with LINE_COMMENTS on
TokenizeComment ==
    /\ Scanning(scanner)
    /\ Branch(scanner, LINE_COMMENTS) = "comment"
    /\ scanner' = ScanComment(scanner)
    /\ UNCHANGED scanFrame

TokenizeSpace ==
    /\ Scanning(scanner)
    /\ Branch(scanner, LINE_COMMENTS) = "space"
    /\ scanner' = ScanSpace(scanner)
    /\ UNCHANGED scanFrame

TokenizeNumber ==
    /\ Scanning(scanner)
    /\ Branch(scanner, LINE_COMMENTS) = "number"
    /\ scanner' = ScanNumber(scanner)
    /\ UNCHANGED scanFrame

TokenizeString ==
    /\ Scanning(scanner)
    /\ Branch(scanner, LINE_COMMENTS) = "string"
    /\ scanner' = ScanString(scanner)
    /\ UNCHANGED scanFrame

TokenizeIdent ==
    /\ Scanning(scanner)
    /\ Branch(scanner, LINE_COMMENTS) = "ident"
    /\ scanner' = ScanIdent(scanner)
    /\ UNCHANGED scanFrame

TokenizeChar ==
    /\ Scanning(scanner)
    /\ Branch(scanner, LINE_COMMENTS) = "char"
    /\ scanner' = ScanChar(scanner)
    /\ UNCHANGED scanFrame

NextScan ==
    \/ TokenizePeekRaises
    \/ TokenizeNoComment
    \/ TokenizeComment
    \/ TokenizeSpace
    \/ TokenizeNumber
    \/ TokenizeString
    \/ TokenizeIdent
    \/ TokenizeChar

SpecScan == InitScan /\ [][NextScan]_vars

\* Scanner.__init__ went through: Scanner('') raises AttributeError in it
Constructed(s) == s.cur_char # Unset

\* tokenize returned its list
Returned(s) == Constructed(s) /\ s.exc = "" /\ s.cur_char = None

----------------------------------------------------------------------------
(* The parser: Parser(tokens).parse() on a token list *)

InitParse ==
    /\ LINE_COMMENTS = FALSE
    /\ MAX_CAPACITY \in 1..MaxCapacity
    /\ scanner = NoScanner
    /\ \E tokens \in ParseTokenLists(MaxTokens) :
          parser = [p |-> ParserNew(tokens), val |-> None, done |-> FALSE]
    /\ tree = NoTree
    /\ last = NoOp
    /\ writes = 0

\* parse() returns the root object
ParseReturns ==
    /\ ~parser.done
    /\ LET r == Parse(parser.p, MAX_CAPACITY)
       IN /\ r.p.exc = ""
          /\ parser' = [p |-> r.p, val |-> r.val, done |-> TRUE]
          /\ tree' = r.val
    /\ UNCHANGED <<LINE_COMMENTS, MAX_CAPACITY, scanner, last, writes>>

\* parse() raises
ParseRaises ==
    /\ ~parser.done
    /\ LET r == Parse(parser.p, MAX_CAPACITY)
       IN /\ r.p.exc # ""
          /\ parser' = [p |-> r.p, val |-> None, done |-> TRUE]
    /\ UNCHANGED <<LINE_COMMENTS, MAX_CAPACITY, scanner, tree, last, writes>>

NextParse == ParseReturns \/ ParseRaises

SpecParse == InitParse /\ [][NextParse]_vars

----------------------------------------------------------------------------
(* The tree: parse_string(source), then indexed writes and renderings *)

RECURSIVE BlockPaths(_)
\* the objects of a tree, each as the subscripts that lead to it from the
\* root: tree[k1][k2]... with a key into an object and an index into an array
BlockPaths(n) ==
    CASE n.kind = "JsonBlock" ->
            {<<>>} \cup UNION {{<<n.nodes[i].key.value>> \o q : q \in BlockPaths(n.nodes[i].value)}
                               : i \in DOMAIN n.nodes}
      [] n.kind = "ArrayNode" ->
            UNION {{<<PyInt(i - 1)>> \o q : q \in BlockPaths(n.value[i])} : i \in DOMAIN n.value}
      [] OTHER -> {}

RECURSIVE At(_, _)
\* n[k1][k2]...: JsonBlock.__getitem__ and ArrayNode.__getitem__ in turn
At(n, path) ==
    IF path = <<>> THEN n
    ELSE IF n.kind = "JsonBlock" THEN At(GetItem(n, Head(path)).val, Tail(path))
    ELSE At(ArrayGetItem(n, Head(path).v), Tail(path))

RECURSIVE ReplaceAt(_, _, _)
\* the tree once the object at the path has become block: the objects are
\* shared by reference, a write into a nested one shows from the root
ReplaceAt(n, path, block) ==
    IF path = <<>> THEN block
    ELSE IF n.kind = "JsonBlock"
    THEN [n EXCEPT !.nodes[FindKey(n, Head(path)).index].value = ReplaceAt(@, Tail(path), block)]
    ELSE [n EXCEPT !.value[Head(path).v + 1] = ReplaceAt(@, Tail(path), block)]

\* the keys written to: the first keys of the documents, of which an object
\* may hold both, one or none
WriteKeys == <<PyStr(<<"a">>), PyStr(<<"b">>)>>

\* the values written: a number, a text, a boolean, a list of those, a dict,
\* a dict whose keys json.dumps writes alike, and unsupported values at the
\* top and nested in lists
HostValues ==
    << PyInt(7),
       PyStr(<<"x">>),
       PyBool(TRUE),
       PyList(<<PyInt(1), PyStr(<<"b">>), PyBool(TRUE)>>),
       PyDict(<< <<PyStr(<<"k">>), PyInt(1)>> >>),
       PyDict(<< <<PyInt(1), PyInt(1)>>, <<PyStr(<<"1">>), PyInt(2)>> >>),
       PyNone,
       PyList(<<PyInt(1), PyList(<<PyTuple(<<>>)>>)>>) >>

Init ==
    /\ LINE_COMMENTS = FALSE
    /\ MAX_CAPACITY = DefaultMaxCapacity
    /\ \E source \in DocSources :
          /\ scanner = Tokenize(source, LINE_COMMENTS)
          /\ \E r \in {Parse(ParserNew(scanner.tokens), MAX_CAPACITY)} :
                /\ parser = [p |-> r.p, val |-> r.val, done |-> TRUE]
                /\ tree = IF r.p.exc = "" THEN r.val ELSE NoTree
    /\ last = NoOp
    /\ writes = 0

\* tree[k1]...[kn][key] = value, which returns
SetItemReturns ==
    /\ tree.kind = "JsonBlock"
    /\ writes < MaxWrites
    /\ \E path \in BlockPaths(tree), k \in DOMAIN WriteKeys, v \in DOMAIN HostValues :
          \E r \in {SetItem(At(tree, path), WriteKeys[k], HostValues[v],
                            LINE_COMMENTS, MAX_CAPACITY)} :
             /\ r.exc = ""
             /\ tree' = ReplaceAt(tree, path, r.block)
             /\ last' = [op |-> "setitem", path |-> path, key |-> WriteKeys[k],
                         value |-> HostValues[v], exc |-> "", result |-> NoTree]
    /\ writes' = writes + 1
    /\ UNCHANGED <<LINE_COMMENTS, MAX_CAPACITY, scanner, parser>>

\* tree[k1]...[kn][key] = value, which raises
SetItemRaises ==
    /\ tree.kind = "JsonBlock"
    /\ writes < MaxWrites
    /\ \E path \in BlockPaths(tree), k \in DOMAIN WriteKeys, v \in DOMAIN HostValues :
          \E r \in {SetItem(At(tree, path), WriteKeys[k], HostValues[v],
                            LINE_COMMENTS, MAX_CAPACITY)} :
             /\ r.exc # ""
             /\ tree' = ReplaceAt(tree, path, r.block)
             /\ last' = [op |-> "setitem", path |-> path, key |-> WriteKeys[k],
                         value |-> HostValues[v], exc |-> r.exc, result |-> NoTree]
    /\ writes' = writes + 1
    /\ UNCHANGED <<LINE_COMMENTS, MAX_CAPACITY, scanner, parser>>

\* parse_string(str(tree)), which returns a tree
RenderReturns ==
    /\ tree.kind = "JsonBlock"
    /\ \E r \in {ParseString(Str(tree), LINE_COMMENTS, MAX_CAPACITY)} :
          /\ r.exc = ""
          /\ last' = [op |-> "parse_string", path |-> <<>>, key |-> PyNone,
                      value |-> PyNone, exc |-> "", result |-> r.val]
    /\ UNCHANGED <<LINE_COMMENTS, MAX_CAPACITY, scanner, parser, tree, writes>>

\* parse_string(str(tree)), which raises
RenderRaises ==
    /\ tree.kind = "JsonBlock"
    /\ \E r \in {ParseString(Str(tree), LINE_COMMENTS, MAX_CAPACITY)} :
          /\ r.exc # ""
          /\ last' = [op |-> "parse_string", path |-> <<>>, key |-> PyNone,
                      value |-> PyNone, exc |-> r.exc, result |-> NoTree]
    /\ UNCHANGED <<LINE_COMMENTS, MAX_CAPACITY, scanner, parser, tree, writes>>

Next == SetItemReturns \/ SetItemRaises \/ RenderReturns \/ RenderRaises

Spec == Init /\ [][Next]_vars

----------------------------------------------------------------------------
(* Claims about the scanner, under SpecScan *)

\* the first step of tokenize is about to be taken
AtStart(s) == Scanning(s) /\ s.index = 0 /\ s.tokens = <<>>

\* C1: for every source text, tokenize returns its token list or fails
\* with ScannerError; no other kind of failure escapes it.
C1_OnlyLexicalErrors ==
    Constructed(scanner) => scanner.exc \in {"", "ScannerError"}

SimpleEscapes == {BACKSLASH, "n", "t", "b", "f", "r"}

Unescape(c) ==
    CASE c = "n" -> "\n" [] c = "t" -> "\t" [] c = "b" -> Chr(8)
      [] c = "f" -> "\f" [] c = "r" -> "\r" [] OTHER -> c

IsHex(src, i) == i <= Len(src) /\ src[i] \in Range(HexDigits)

RECURSIVE ReadLiteral(_, _, _)
\* the string literal whose body starts at src[i], read as the grammar
\* reads it: plain characters and valid escapes up to the closing quote.
\* ok: it is properly terminated; value: what it denotes; close: the place
\* of its closing quote
ReadLiteral(src, i, acc) ==
    IF i > Len(src) \/ src[i] = NEWLINE THEN [ok |-> FALSE, value |-> acc, close |-> 0]
    ELSE IF src[i] = QUOTE THEN [ok |-> TRUE, value |-> acc, close |-> i]
    ELSE IF src[i] # BACKSLASH THEN ReadLiteral(src, i + 1, Append(acc, src[i]))
    ELSE IF i + 1 <= Len(src) /\ src[i + 1] \in SimpleEscapes
    THEN ReadLiteral(src, i + 2, Append(acc, Unescape(src[i + 1])))
    ELSE IF /\ i + 1 <= Len(src) /\ src[i + 1] = "u"
            /\ \A k \in 2..5 : IsHex(src, i + k)
            /\ ~IsHex(src, i + 6)
    THEN ReadLiteral(src, i + 6, Append(acc, Chr(ParseInt(SubSeq(src, i + 2, i + 5), 16))))
    ELSE [ok |-> FALSE, value |-> acc, close |-> 0]

\* C5: a properly terminated string literal of plain characters and valid
\* escapes gives one string token whose value is the characters and the
\* decoded escapes in order, and scanning resumes right after its closing
\* quote (here: the literal the source starts with).
C5_StringLiteralDecoded ==
    [][LET src == scanner.source_lit
           lit == ReadLiteral(src, 2, <<>>)
       IN (AtStart(scanner) /\ scanner.cur_char = QUOTE /\ lit.ok) =>
            /\ scanner'.exc = ""
            /\ Len(scanner'.tokens) = 1
            /\ scanner'.tokens[1].type = "StringLit"
            /\ scanner'.tokens[1].value = PyStr(lit.value)
            /\ IF lit.close = Len(src) THEN scanner'.cur_char = None
               ELSE scanner'.index = lit.close /\ scanner'.cur_char = src[lit.close + 1]
      ]_vars

\* the source starts with a quote, and the end of the input or a newline
\* comes before the next quote
Unterminated(src) ==
    LET stops == {i \in 2..Len(src) : src[i] \in {QUOTE, NEWLINE}}
    IN stops = {} \/ src[CHOOSE i \in stops : \A j \in stops : i <= j] = NEWLINE

\* C6: when the end of the input or a newline comes after an opening quote
\* and before its closing quote, tokenize fails with a ScannerError and
\* gives no string token.
C6_UnterminatedStringRejected ==
    [][(AtStart(scanner) /\ scanner.cur_char = QUOTE /\ Unterminated(scanner.source_lit)) =>
            scanner'.exc = "ScannerError" /\ scanner'.tokens = <<>>
      ]_vars

\* the source starts a number: a digit, or a point followed by a digit
StartsNumber(src) ==
    \/ IsDigit(src[1])
    \/ src[1] = "." /\ Len(src) >= 2 /\ IsDigit(src[2])

\* the longest run of digits and points the source starts with
NumberRun(src) ==
    LET ends == {n \in 0..Len(src) : \A i \in 1..n : IsDigit(src[i]) \/ src[i] = "."}
    IN SubSeq(src, 1, CHOOSE n \in ends : \A m \in ends : m <= n)

\* C7: a maximal run of digits and points that starts a number gives an
\* int token when it has no point, a float token when it has exactly one
\* point, and a ScannerError when it has two or more points (here: the run
\* the source starts with).
C7_NumberByPointCount ==
    [][LET src == scanner.source_lit
           points == CountOf(NumberRun(src), ".")
           oneNumber(t) == /\ scanner'.exc = ""
                           /\ Len(scanner'.tokens) = 1
                           /\ scanner'.tokens[1].type = "NumberLit"
                           /\ scanner'.tokens[1].value.t = t
       IN (AtStart(scanner) /\ StartsNumber(src)) =>
            /\ points = 0 => oneNumber("int")
            /\ points = 1 => oneNumber("float")
            /\ points >= 2 => scanner'.exc = "ScannerError"
      ]_vars

\* the number of newline characters before the character at index (from 0)
NewlinesBefore(src, index) == CountOf(SubSeq(src, 1, index), NEWLINE)

\* C11: for every source tokenize accepts, with line comments off or on,
\* the line of each token's start position is 1 plus the number of newline
\* characters before the token's first character; this holds for every
\* token after a skipped comment too (a token's first character is the
\* current character of the step that appends it).
C11_LineTracksSource ==
    [][(/\ Tokenize(scanner.source_lit, LINE_COMMENTS).exc = ""
        /\ Len(scanner'.tokens) = Len(scanner.tokens) + 1) =>
            scanner'.tokens[Len(scanner'.tokens)].pos.start_pos.line =
                1 + NewlinesBefore(scanner.source_lit, scanner.index)
      ]_vars

----------------------------------------------------------------------------
(* Claims about the parser, under SpecParse *)

\* C2: for every token list, parse returns one JsonBlock or fails with
\* ParserError; in particular when the tokens run out before a closing
\* brace or bracket the failure is a ParserError and no other kind.
C2_OnlySyntaxErrors ==
    parser.done =>
        \/ parser.p.exc = "" /\ parser.val.kind = "JsonBlock"
        \/ parser.p.exc = "ParserError"

RECURSIVE MaxOwnFields(_)
\* the largest number of fields any single object of the tree holds itself
MaxOwnFields(n) ==
    LET max(S) == IF S = {} THEN 0 ELSE CHOOSE x \in S : \A y \in S : y <= x
    IN CASE n.kind = "JsonBlock" ->
              max({Len(n.nodes)} \cup {MaxOwnFields(n.nodes[i].value) : i \in DOMAIN n.nodes})
         [] n.kind = "ArrayNode" -> max({MaxOwnFields(n.value[i]) : i \in DOMAIN n.value})
         [] OTHER -> 0

CapacityMsg == "Fields count greeter then maximum capacity"

\* C3: the cap on fields is per object: parsing (of a document that is
\* otherwise well formed) fails with the capacity error if and only if some
\* single object holds more than MAX_CAPACITY fields itself, whatever the
\* objects nested in it, beside it or around it hold.
C3_CapacityPerObject ==
    LET free == Parse(ParserNew(parser.p.tokens_lit), Len(parser.p.tokens_lit))
    IN (parser.done /\ free.p.exc = "") =>
         /\ (parser.p.exc = "ParserError" /\ parser.p.msg = CapacityMsg)
               <=> MaxOwnFields(free.val) > MAX_CAPACITY
         /\ MaxOwnFields(free.val) <= MAX_CAPACITY => parser.p.exc = ""

----------------------------------------------------------------------------
(* Claims about the tree, under Spec *)

RECURSIVE DistinctKeys(_)
\* in every object of the tree the keys of the pairs are pairwise distinct
DistinctKeys(n) ==
    CASE n.kind = "JsonBlock" ->
            /\ \A i, j \in DOMAIN n.nodes :
                  i # j => n.nodes[i].key.value # n.nodes[j].key.value
            /\ \A i \in DOMAIN n.nodes : DistinctKeys(n.nodes[i].value)
      [] n.kind = "ArrayNode" -> \A i \in DOMAIN n.value : DistinctKeys(n.value[i])
      [] OTHER -> TRUE

\* the documents whose last key repeats the first
DuplicateKeySources ==
    {DocText(n, start, TRUE) : n \in 2..MaxFields, start \in DOMAIN ValueTexts}

\* a write step left the pairs of the object written to in place: as many,
\* the same keys in the same order, and only the pair of the key may differ
WrittenInPlace ==
    LET before == At(tree, last'.path)
        after == At(tree', last'.path)
    IN /\ Keys(after) = Keys(before)
       /\ \A i \in DOMAIN before.nodes :
             before.nodes[i].key.value # last'.key => after.nodes[i] = before.nodes[i]

\* C4: in every object, root or nested, reachable by a successful parse
\* followed by any sequence of indexed writes, successful or failing, the
\* keys of the pairs are pairwise distinct: a source with a duplicate key in
\* one object is rejected by the parser, and a write replaces the pair of
\* the existing key in place, leaving the number and order of keys unchanged.
C4_KeysPairwiseDistinct ==
    /\ [](tree.kind = "JsonBlock" => DistinctKeys(tree))
    /\ [](scanner.source_lit \in DuplicateKeySources =>
             /\ parser.p.exc = "ParserError"
             /\ parser.p.msg = "Duplicated key found"
             /\ tree.kind = None)
    /\ [][writes' = writes + 1 => WrittenInPlace]_vars

\* after the last of the writes, a successful one into a nested object, at
\* its second key
C4_NestedPairReplaced ==
    /\ writes = MaxWrites
    /\ last.op = "setitem"
    /\ last.exc = ""
    /\ last.path # <<>>
    /\ FindKey(At(tree, last.path), last.key).index = 2

RECURSIVE Classifiable(_)
\* a number, a text, a boolean, or a sequence of such values
Classifiable(value) ==
    \/ value.t \in {"int", "float", "str", "bool"}
    \/ value.t = "list" /\ \A i \in DOMAIN value.v : Classifiable(value.v[i])

RECURSIVE Classify(_)
\* the node variant by the type of the value
Classify(value) ==
    CASE value.t = "bool" -> BooleanNode(value)
      [] value.t \in {"int", "float"} -> NumberNode(value)
      [] value.t = "str" -> StringNode(value)
      [] value.t = "list" -> ArrayNode([i \in DOMAIN value.v |-> Classify(value.v[i])])

\* C8: an indexed write tree[key] = v on an existing key stores a node whose
\* variant is determined by the type of v: a number gives a Number node, a
\* text a String node, a boolean a Boolean node, and an ordered sequence an
\* Array node of the same classification of each element in order,
\* recursively; reading the key afterwards returns that node.
C8_WriteStoresVariant ==
    (last.op = "setitem" /\ last.exc = "" /\ Classifiable(last.value)) =>
        GetItem(At(tree, last.path), last.key) = Val(Classify(last.value))

RECURSIVE Unsupported(_)
\* a value of no supported type, or a sequence holding one at any depth
Unsupported(value) ==
    \/ value.t \notin {"int", "float", "str", "bool", "list", "dict"}
    \/ value.t = "list" /\ \E i \in DOMAIN value.v : Unsupported(value.v[i])

\* C9: an indexed write whose value has an unsupported type, at the top
\* level or nested inside a sequence, raises JsonError (the error of looking
\* up an absent key) and leaves every pair of the object as it was.
C9_UnsupportedValueRejected ==
    [][(writes' = writes + 1 /\ Unsupported(last'.value)) =>
          (last'.exc = "JsonError" /\ tree' = tree)
      ]_vars

\* C10: rendering is a round trip: for every tree produced by parsing (a
\* source without string escapes, and never written to), rendering the tree
\* to text and parsing that text again gives a tree equal to the original;
\* true renders as true and false as false.
C10_RenderRoundTrip ==
    (last.op = "parse_string" /\ writes = 0) => (last.exc = "" /\ last.result = tree)

=============================================================================
